---- MODULE Spec2Model ----
(***************************************************************************)
(* Model of src/lint.rs of rust-cpp: the lint pass that records the types  *)
(* of every cpp! block's call site (record_type_data) and, once every      *)
(* registered block has a return type, writes and compiles the generated   *)
(* C++ document (finalize).                                                *)
(*                                                                         *)
(* The shared tables CPP_HEADERS, CPP_FNDECLS, CPP_TYPEDATA and CPP_FLAGS  *)
(* are mutexes; every lint callback is a thread that walks through         *)
(* record_type_data one lock, one block of statements at a time.           *)
(***************************************************************************)
EXTENDS Naturals, Sequences, FiniteSets

\* ------------------------------------------------------------------ bounds
NumThreads == 2      \* lint callbacks that may run record_type_data
MaxArgs == 2         \* longest argument list of a block or of a call
MaxFinalize == 2     \* cap of the number of finalize invocations
MaxArgv == 3         \* longest command line of the compiler process

Threads == 1 .. NumThreads

\* Names of the cpp! blocks the front end may register.
BlockNames == {"cpp_1", "cpp_2"}
\* Callee names the visitor may meet: the blocks and one ordinary function.
CalleeNames == BlockNames \cup {"other_fn"}
\* Identifiers of the captured arguments, in capture order.
ArgNames == <<"a", "b", "c", "d">>

\* Host types of the visited expressions: a #[repr(C)] struct, which has a C++
\* declaration, and a closure type, which has no C++ equivalent.
HostTypes == {"Point", "Closure"}

\* Shapes of an argument expression of the call: `&x as *const _ as *const u8`
\* (ExprCast(ExprCast(ExprAddrOf))) or anything else.
DoubleCastRef == "cast_cast_addrof"
OtherShape == "other"

ArgExprs ==
  [shape : {DoubleCastRef}, ty : HostTypes] \cup [shape : {OtherShape}, ty : {"Point"}]

\* Option<T>: None, or Some(x) with x == Get(Some(x)).
None == <<>>
Some(x) == <<x>>
Get(o) == o[1]

Locks == {"headers", "decls", "types", "flags"}
Free == 0

\* ------------------------------------------------------ super_hack_get_out_dir
\* An argument, or the name of a directory, that is not valid Unicode.
NonUnicode == "<FF FE>"
IsUnicode(a) == a # NonUnicode

\* Arguments a command line is made of: the flag, the flag in its one-argument
\* form, two other arguments (a directory, another option) and an argument
\* that is not valid Unicode.
ArgTokens == {"--out-dir", "--out-dir=gen", "target", "-O", NonUnicode}
ArgVectors == UNION {[1 .. k -> ArgTokens] : k \in 0 .. MaxArgv}

\* Outcomes of a call of super_hack_get_out_dir, and of its loop.
NotCalled == [state |-> "not_called", dir |-> ""]
Returned(d) == [state |-> "returned", dir |-> d]
Panicked == [state |-> "panicked", dir |-> ""]
NoOutDir == [state |-> "none", dir |-> ""]

\* Lines 24-33: the loop over env::args() from its i-th argument on: the value
\* of out_dir after the loop (NoOutDir for None), or the panic of the iterator
\* of env::args() on an argument that is not valid Unicode. (format!("{}", a)
\* of a String and OsString::from keep the text of the argument.)
RECURSIVE ScanArgs(_, _, _)
ScanArgs(args, i, found_out_dir) ==
  IF i > Len(args) THEN NoOutDir
  ELSE IF ~IsUnicode(args[i]) THEN Panicked
  ELSE IF args[i] = "--out-dir" THEN ScanArgs(args, i + 1, TRUE)
  ELSE IF found_out_dir THEN Returned(args[i])
  ELSE ScanArgs(args, i + 1, found_out_dir)

\* Lines 21-36, for the command line args and the working directory dir (None
\* if env::current_dir() fails):
\* out_dir.unwrap_or_else(|| env::current_dir().unwrap().into_os_string()).
super_hack_get_out_dir(args, dir) ==
  LET o == ScanArgs(args, 1, FALSE)
  IN  IF o # NoOutDir THEN o
      ELSE IF dir = None THEN Panicked
      ELSE Returned(Get(dir))

VARIABLES
  headers,        \* CPP_HEADERS: the accumulated header text
  decls,          \* CPP_FNDECLS: HashMap<String, CppFn>
  types,          \* CPP_TYPEDATA: the compound types declared so far, in discovery order
  flags,          \* CPP_FLAGS: extra compiler flags
  has_errors,     \* the session's err_count is not 0: an error has been emitted
  lockOwner,      \* per mutex: the thread holding it, or Free
  poisoned,       \* the mutexes poisoned by a panic of their holder
  pc,             \* per thread: its position in record_type_data / finalize
  call,           \* per thread: the call expression it is processing (name, type, args)
  finalizeCalls,  \* number of invocations of finalize
  cppcode,        \* per thread: finalize's document, as written to rust_cpp_tmp.cpp
  cxxflags,       \* number of "-std=c++0x" appended to the CXXFLAGS environment variable
  compiles,       \* number of runs of the C++ compiler
  env_args,       \* env::args(): the command line of the compiler process
  cwd,            \* env::current_dir(): Some(dir), or None if it cannot be obtained
  out_dir         \* the outcome of the last call of super_hack_get_out_dir

vars == <<headers, decls, types, flags, has_errors, lockOwner, poisoned, pc, call,
          finalizeCalls, cppcode, cxxflags, compiles, env_args, cwd, out_dir>>

\* ------------------------------------------------------------ type translation
\* types::cpp_type_of, TypeName::recover and TypeName::into_name live in types.rs.

\* The C++ name of a host type: by value in return position, behind a const
\* pointer in argument position.
CppName(ty, is_arg) ==
  IF ty = "Point"
    THEN IF is_arg THEN "const rs::Point*" ELSE "rs::Point"
    ELSE IF is_arg THEN "const rs::__Dummy*" ELSE "rs::__Dummy"

\* Declare a compound type once, in discovery order.
DeclareType(td, ty) ==
  IF ty = "Point" /\ \A i \in 1 .. Len(td) : td[i] # ty THEN Append(td, ty) ELSE td

\* cpp_type_of(&mut types, tcx, expr, is_arg): the TypeName of the expression's
\* type and the type registry after the translation.
cpp_type_of(td, ty, is_arg) ==
  [tn |-> [name |-> CppName(ty, is_arg),
           errors |-> IF ty = "Closure" THEN 1 ELSE 0,
           warnings |-> 0],
   types |-> DeclareType(td, ty)]

\* tn.recover(): errors become warnings.
recover(tn) == [tn EXCEPT !.errors = 0, !.warnings = tn.warnings + tn.errors]

\* tn.into_name(cx): the name; its errors are emitted to the session.
into_name(tn) == tn.name
EmittedErrors(tn) == tn.errors

\* ------------------------------------------------------------------ registry
Registered == DOMAIN decls

\* A CppFn as the front end creates it: k argument identifiers, no types.
NewCppFn(k) ==
  [ret_ty |-> None,
   arg_idents |-> [i \in 1 .. k |-> [name |-> ArgNames[i], ty |-> None]]]

\* Mutant of AllRetTySome: `any` in place of `all`.
AnyRetTySome(d) == \E n \in DOMAIN d : d[n].ret_ty # None

\* decls.values().all(|x| x.ret_ty.is_some())
AllRetTySome(d) == \A n \in DOMAIN d : d[n].ret_ty # None

Insert(d, n, fn) == [m \in DOMAIN d \cup {n} |-> IF m = n THEN fn ELSE d[m]]

Held(t) == {l \in Locks : lockOwner[l] = t}

\* The call expressions check_expr may hand to record_type_data: every call of
\* a one-segment path, with any number of arguments.
ArgLists(k) == [1 .. k -> ArgExprs]
Calls == [name : CalleeNames, ty : HostTypes, args : UNION {ArgLists(k) : k \in 0 .. MaxArgs}]

\* The calls the front end emits: the call of a registered block has one
\* argument per argument descriptor of the block.
ContractCalls ==
  {c \in Calls : c.name \in DOMAIN decls => Len(c.args) = Len(decls[c.name].arg_idents)}

\* The shared tables and the threads before the lint pass starts.
InitTables ==
  /\ headers = <<"#include <cmath>">>
  /\ decls = <<>>
  /\ types = <<>>
  /\ flags = <<"-Wall">>
  /\ has_errors = FALSE
  /\ lockOwner = [l \in Locks |-> Free]
  /\ poisoned = {}
  /\ pc = [t \in Threads |-> "idle"]
  /\ call = [t \in Threads |-> None]
  /\ finalizeCalls = 0
  /\ cppcode = [t \in Threads |-> None]
  /\ cxxflags = 0
  /\ compiles = 0
  /\ out_dir = NotCalled

\* The crate root, the working directory of a build driven by cargo.
CrateDir == "/crate"

Init ==
  /\ InitTables
  /\ env_args = <<"rustc", "lib.rs">>
  /\ cwd = Some(CrateDir)

\* ------------------------------------------------------------------ mutexes
\* A panic unwinds the thread: every guard it holds is dropped while panicking,
\* which releases the mutex and poisons it.
UnwindOwner(t) == [l \in Locks |-> IF lockOwner[l] = t THEN Free ELSE lockOwner[l]]
UnwindPoison(t) == poisoned \cup Held(t)

\* Returning drops the guards: the mutexes are released.
ReleaseAll(t) == [l \in Locks |-> IF lockOwner[l] = t THEN Free ELSE lockOwner[l]]

\* Mutant of LockUnwrap: the poison of the mutex is ignored.
LockIgnorePoison(t, l, from, to) ==
  /\ pc[t] = from
  /\ lockOwner[l] = Free
  /\ pc' = [pc EXCEPT ![t] = to]
  /\ lockOwner' = [lockOwner EXCEPT ![l] = t]
  /\ UNCHANGED <<headers, decls, types, flags, has_errors, poisoned, call, finalizeCalls,
                 cppcode, cxxflags, compiles, env_args, cwd, out_dir>>

\* Mutant of LockUnwrap: the lock does not wait for the mutex to be free.
LockNoBlock(t, l, from, to) ==
  /\ pc[t] = from
  /\ IF l \in poisoned
       THEN /\ pc' = [pc EXCEPT ![t] = "dead"]
            /\ lockOwner' = UnwindOwner(t)
            /\ poisoned' = UnwindPoison(t)
       ELSE /\ pc' = [pc EXCEPT ![t] = to]
            /\ lockOwner' = [lockOwner EXCEPT ![l] = t]
            /\ UNCHANGED poisoned
  /\ UNCHANGED <<headers, decls, types, flags, has_errors, call, finalizeCalls,
                 cppcode, cxxflags, compiles, env_args, cwd, out_dir>>

\* Mutant of LockUnwrap: every second callback takes the mutexes of the three
\* tables in the opposite order (types, decls, headers).
Opposite(l) == IF l = "headers" THEN "types" ELSE IF l = "types" THEN "headers" ELSE l
LockOppositeOrder(t, l, from, to) ==
  LET m == IF t % 2 = 0 THEN Opposite(l) ELSE l
  IN  /\ pc[t] = from
      /\ lockOwner[m] = Free
      /\ IF m \in poisoned
           THEN /\ pc' = [pc EXCEPT ![t] = "dead"]
                /\ lockOwner' = UnwindOwner(t)
                /\ poisoned' = UnwindPoison(t)
           ELSE /\ pc' = [pc EXCEPT ![t] = to]
                /\ lockOwner' = [lockOwner EXCEPT ![m] = t]
                /\ UNCHANGED poisoned
      /\ UNCHANGED <<headers, decls, types, flags, has_errors, call, finalizeCalls,
                     cppcode, cxxflags, compiles, env_args, cwd, out_dir>>

\* M.lock().unwrap(): blocks while another thread holds M, panics if M is poisoned.
LockUnwrap(t, l, from, to) ==
  /\ pc[t] = from
  /\ lockOwner[l] = Free
  /\ IF l \in poisoned
       THEN /\ pc' = [pc EXCEPT ![t] = "dead"]
            /\ lockOwner' = UnwindOwner(t)
            /\ poisoned' = UnwindPoison(t)
       ELSE /\ pc' = [pc EXCEPT ![t] = to]
            /\ lockOwner' = [lockOwner EXCEPT ![l] = t]
            /\ UNCHANGED poisoned
  /\ UNCHANGED <<headers, decls, types, flags, has_errors, call, finalizeCalls,
                 cppcode, cxxflags, compiles, env_args, cwd, out_dir>>

\* ------------------------------------------------------------------ front end
\* The macro expansion registers a block under a fresh name with its argument
\* identifiers; its types are not known yet.
RegisterBlock(n, k) ==
  /\ n \notin Registered
  /\ lockOwner["decls"] = Free
  /\ "decls" \notin poisoned
  /\ decls' = Insert(decls, n, NewCppFn(k))
  /\ UNCHANGED <<headers, types, flags, has_errors, lockOwner, poisoned, pc, call,
                 finalizeCalls, cppcode, cxxflags, compiles, env_args, cwd, out_dir>>

\* ------------------------------------------------------------ record_type_data
\* let mut headers = CPP_HEADERS.lock().unwrap();
LockHeaders(t) ==
  /\ finalizeCalls < MaxFinalize
  /\ LockUnwrap(t, "headers", "idle", "has_headers")

\* let mut decls = CPP_FNDECLS.lock().unwrap();
LockDecls(t) == LockUnwrap(t, "decls", "has_headers", "has_decls")

\* let mut types = CPP_TYPEDATA.lock().unwrap();
LockTypes(t) == LockUnwrap(t, "types", "has_decls", "has_types")

\* Mutant of RecordArgs: `break` in place of `continue`, the loop ends after the
\* first argument it stores.
RecordArgsBreak(st, args, i) ==
  IF i > Len(args) THEN st
  ELSE IF args[i].shape # DoubleCastRef THEN [st EXCEPT !.outcome = "panic_shape"]
  ELSE
    LET r == cpp_type_of(st.types, args[i].ty, TRUE)
        tn == recover(r.tn)
    IN  IF i > Len(st.cppfn.arg_idents)
          THEN [st EXCEPT !.types = r.types, !.outcome = "panic_index"]
          ELSE [st EXCEPT !.cppfn.arg_idents[i].ty = Some(into_name(tn)),
                          !.types = r.types,
                          !.errors = st.errors + EmittedErrors(tn)]

\* Mutant of RecordArgs: tn.recover() is missing.
RECURSIVE RecordArgsNoRecover(_, _, _)
RecordArgsNoRecover(st, args, i) ==
  IF i > Len(args) THEN st
  ELSE IF args[i].shape # DoubleCastRef THEN [st EXCEPT !.outcome = "panic_shape"]
  ELSE
    LET r == cpp_type_of(st.types, args[i].ty, TRUE)
        tn == r.tn
    IN  IF i > Len(st.cppfn.arg_idents)
          THEN [st EXCEPT !.types = r.types, !.outcome = "panic_index"]
          ELSE RecordArgsNoRecover(
                 [st EXCEPT !.cppfn.arg_idents[i].ty = Some(into_name(tn)),
                            !.types = r.types,
                            !.errors = st.errors + EmittedErrors(tn)],
                 args, i + 1)

\* Mutant of RecordArgs: the type of the i-th argument is stored on the i-th
\* descriptor from the end.
RECURSIVE RecordArgsReversed(_, _, _)
RecordArgsReversed(st, args, i) ==
  IF i > Len(args) THEN st
  ELSE IF args[i].shape # DoubleCastRef THEN [st EXCEPT !.outcome = "panic_shape"]
  ELSE
    LET r == cpp_type_of(st.types, args[i].ty, TRUE)
        tn == recover(r.tn)
    IN  IF i > Len(st.cppfn.arg_idents)
          THEN [st EXCEPT !.types = r.types, !.outcome = "panic_index"]
          ELSE RecordArgsReversed(
                 [st EXCEPT !.cppfn.arg_idents[Len(args) + 1 - i].ty = Some(into_name(tn)),
                            !.types = r.types,
                            !.errors = st.errors + EmittedErrors(tn)],
                 args, i + 1)

\* The loop over args.iter().enumerate(), from index i on. st is the state of
\* the visit so far: the CppFn, the type registry and how the loop ended.
RECURSIVE RecordArgs(_, _, _)
RecordArgs(st, args, i) ==
  IF i > Len(args) THEN st
  ELSE IF args[i].shape # DoubleCastRef THEN [st EXCEPT !.outcome = "panic_shape"]
  ELSE
    LET r == cpp_type_of(st.types, args[i].ty, TRUE)
        tn == recover(r.tn)
    IN  IF i > Len(st.cppfn.arg_idents)
          THEN [st EXCEPT !.types = r.types, !.outcome = "panic_index"]
          ELSE RecordArgs(
                 [st EXCEPT !.cppfn.arg_idents[i].ty = Some(into_name(tn)),
                            !.types = r.types,
                            !.errors = st.errors + EmittedErrors(tn)],
                 args, i + 1)

\* Mutant of RecordBlock: the visit clears the block's argument types before it
\* fills them in again.
RecordBlockClearFirst(cppfn, td, c) ==
  LET r == cpp_type_of(td, c.ty, FALSE)
  IN  RecordArgs([cppfn |-> [cppfn EXCEPT
                               !.ret_ty = Some(into_name(r.tn)),
                               !.arg_idents = [i \in DOMAIN @ |-> [@[i] EXCEPT !.ty = None]]],
                  types |-> r.types,
                  errors |-> EmittedErrors(r.tn),
                  outcome |-> "ok"],
                 c.args, 1)

\* The body of `if let Some(cppfn) = decls.get_mut(name)`: the return type, then
\* the arguments.
RecordBlock(cppfn, td, c) ==
  LET r == cpp_type_of(td, c.ty, FALSE)
  IN  RecordArgs([cppfn |-> [cppfn EXCEPT !.ret_ty = Some(into_name(r.tn))],
                  types |-> r.types,
                  errors |-> EmittedErrors(r.tn),
                  outcome |-> "ok"],
                 c.args, 1)

\* Mutant of Record: a name that is not in the registry is a hard error.
RecordPanicOnMiss(t, c) ==
  /\ pc[t] = "has_types"
  /\ IF c.name \notin Registered
       THEN /\ pc' = [pc EXCEPT ![t] = "panic_lookup"]
            /\ call' = [call EXCEPT ![t] = Some(c)]
            /\ UNCHANGED <<decls, types, has_errors>>
       ELSE LET st == RecordBlock(decls[c.name], types, c)
            IN  /\ decls' = [decls EXCEPT ![c.name] = st.cppfn]
                /\ types' = st.types
                /\ has_errors' = (has_errors \/ st.errors > 0)
                /\ call' = [call EXCEPT ![t] = Some(c)]
                /\ pc' = [pc EXCEPT ![t] = IF st.outcome = "ok" THEN "recorded" ELSE st.outcome]
  /\ UNCHANGED <<headers, flags, lockOwner, poisoned, finalizeCalls, cppcode, cxxflags,
                 compiles, env_args, cwd, out_dir>>

\* Mutant of Record: the `else { return; }` of lines 100-102 is missing, a call
\* of another function falls through to the completeness check.
RecordFallThrough(t, c) ==
  /\ pc[t] = "has_types"
  /\ IF c.name \notin Registered
       THEN /\ pc' = [pc EXCEPT ![t] = "recorded"]
            /\ call' = [call EXCEPT ![t] = Some(c)]
            /\ UNCHANGED <<decls, types, has_errors>>
       ELSE LET st == RecordBlock(decls[c.name], types, c)
            IN  /\ decls' = [decls EXCEPT ![c.name] = st.cppfn]
                /\ types' = st.types
                /\ has_errors' = (has_errors \/ st.errors > 0)
                /\ call' = [call EXCEPT ![t] = Some(c)]
                /\ pc' = [pc EXCEPT ![t] = IF st.outcome = "ok" THEN "recorded" ELSE st.outcome]
  /\ UNCHANGED <<headers, flags, lockOwner, poisoned, finalizeCalls, cppcode, cxxflags,
                 compiles, env_args, cwd, out_dir>>

\* Lines 74-99 and the else of line 100: record the types of the call c; if its
\* callee is no registered block, decls.get_mut(name) is None and the else
\* branch is taken ("not_found"). A panic (line 98, or the index of line 88) is
\* raised with the guards still held; Unwind is its second half.
Record(t, c) ==
  /\ pc[t] = "has_types"
  /\ IF c.name \notin Registered
       THEN /\ pc' = [pc EXCEPT ![t] = "not_found"]
            /\ UNCHANGED <<decls, types, has_errors, call, lockOwner>>
       ELSE LET st == RecordBlock(decls[c.name], types, c)
            IN  /\ decls' = [decls EXCEPT ![c.name] = st.cppfn]
                /\ types' = st.types
                /\ has_errors' = (has_errors \/ st.errors > 0)
                /\ call' = [call EXCEPT ![t] = Some(c)]
                /\ pc' = [pc EXCEPT ![t] = IF st.outcome = "ok" THEN "recorded" ELSE st.outcome]
                /\ UNCHANGED lockOwner
  /\ UNCHANGED <<headers, flags, poisoned, finalizeCalls, cppcode, cxxflags, compiles, env_args, cwd, out_dir>>

\* Line 101: `return;` on a name that is not in the registry. The callback is
\* over, its three guards are dropped.
ReturnNotFound(t) ==
  /\ pc[t] = "not_found"
  /\ pc' = [pc EXCEPT ![t] = "idle"]
  /\ lockOwner' = ReleaseAll(t)
  /\ UNCHANGED <<headers, decls, types, flags, has_errors, poisoned, call, finalizeCalls,
                 cppcode, cxxflags, compiles, env_args, cwd, out_dir>>

\* The positions of a thread that has panicked and has not unwound yet: at
\* line 98, line 88, line 107 (abort_if_errors), and in finalize at lines 35
\* (through line 195), 200, 201, 219, 245 and 249.
PanicPcs ==
  {"panic_shape", "panic_index", "abort_if_errors", "panic_out_dir", "panic_create",
   "panic_write", "panic_to_str", "panic_println_245", "panic_println_249"}

\* The unwinding of a panic raised in record_type_data: the callback is over,
\* its guards are dropped while panicking.
Unwind(t) ==
  /\ pc[t] \in PanicPcs
  /\ pc' = [pc EXCEPT ![t] = "dead"]
  /\ call' = [call EXCEPT ![t] = None]
  /\ cppcode' = [cppcode EXCEPT ![t] = None]
  /\ lockOwner' = UnwindOwner(t)
  /\ poisoned' = UnwindPoison(t)
  /\ UNCHANGED <<headers, decls, types, flags, has_errors, finalizeCalls, cxxflags,
                 compiles, env_args, cwd, out_dir>>

\* Mutant of Check: cx.sess().abort_if_errors() is missing.
CheckNoAbort(t) ==
  /\ pc[t] = "recorded"
  /\ call' = [call EXCEPT ![t] = None]
  /\ IF AllRetTySome(decls)
       THEN /\ pc' = [pc EXCEPT ![t] = "finalize"]
            /\ finalizeCalls' = finalizeCalls + 1
            /\ UNCHANGED lockOwner
       ELSE /\ pc' = [pc EXCEPT ![t] = "idle"]
            /\ lockOwner' = ReleaseAll(t)
            /\ UNCHANGED finalizeCalls
  /\ UNCHANGED <<headers, decls, types, flags, has_errors, poisoned, cppcode, cxxflags,
                 compiles, env_args, cwd, out_dir>>

\* Lines 104-109: if every block has a return type, abort_if_errors and finalize.
Check(t) ==
  /\ pc[t] = "recorded"
  /\ call' = [call EXCEPT ![t] = None]
  /\ IF AllRetTySome(decls)
       THEN IF has_errors
              THEN /\ pc' = [pc EXCEPT ![t] = "abort_if_errors"]
                   /\ UNCHANGED <<finalizeCalls, lockOwner>>
              ELSE /\ pc' = [pc EXCEPT ![t] = "finalize"]
                   /\ finalizeCalls' = finalizeCalls + 1
                   /\ UNCHANGED lockOwner
       ELSE /\ pc' = [pc EXCEPT ![t] = "idle"]
            /\ lockOwner' = ReleaseAll(t)
            /\ UNCHANGED finalizeCalls
  /\ UNCHANGED <<headers, decls, types, flags, has_errors, poisoned, cppcode, cxxflags,
                 compiles, env_args, cwd, out_dir>>

\* ------------------------------------------------------------------ finalize
\* The orders in which a HashMap with the keys S may be iterated: the order is
\* that of the hashes under the map's random keys, which differ from run to run.
IterOrders(S) ==
  {o \in [1 .. Cardinality(S) -> S] : \A n \in S : \E i \in DOMAIN o : o[i] = n}

\* CppFn::to_string: the declaration of one block's function.
to_string(n, fn) ==
  [ret |-> fn.ret_ty, name |-> n,
   args |-> [i \in DOMAIN fn.arg_idents |-> <<fn.arg_idents[i].ty, fn.arg_idents[i].name>>]]

\* decls.values().fold(..), with the values met in the order o.
fndecls(d, o) == [i \in DOMAIN o |-> to_string(o[i], d[o[i]])]

TargetUintType == "uint64_t"
TargetIntType == "int64_t"

\* The generated document: the holes of the format string.
Document(o) ==
  [uint_type |-> TargetUintType, int_type |-> TargetIntType,
   headers |-> headers, types |-> types, fndecls |-> fndecls(decls, o)]

\* What the file system does with File::create and write_all of lines 200-201.
FileOutcomes == {"ok", "create_failed", "write_failed"}
\* What env::current_dir() may give when line 35 asks for it.
WorkingDirs == {None, Some(CrateDir), Some(NonUnicode)}

\* Lines 116-236: render the document, get the output directory (line 195, with
\* d the answer of env::current_dir()), write the document to it (lines
\* 198-203, with the outcome io of the file system), add the search path (line
\* 219) and set the environment of the compiler driver. The unwraps of lines
\* 35, 200, 201 and 219 panic with the three guards held.
FinalizeWrite(t, o, io, d) ==
  /\ pc[t] = "finalize"
  /\ o \in IterOrders(Registered)
  /\ io \in FileOutcomes
  /\ d \in WorkingDirs
  /\ cwd' = d
  /\ out_dir' = super_hack_get_out_dir(env_args, d)
  /\ IF out_dir'.state = "panicked"
       THEN /\ pc' = [pc EXCEPT ![t] = "panic_out_dir"]
            /\ UNCHANGED <<cppcode, cxxflags>>
       ELSE IF io = "create_failed"
       THEN /\ pc' = [pc EXCEPT ![t] = "panic_create"]
            /\ UNCHANGED <<cppcode, cxxflags>>
       ELSE IF io = "write_failed"
       THEN /\ pc' = [pc EXCEPT ![t] = "panic_write"]
            /\ UNCHANGED <<cppcode, cxxflags>>
       ELSE IF ~IsUnicode(out_dir'.dir)
       THEN /\ cppcode' = [cppcode EXCEPT ![t] = Some(Document(o))]
            /\ pc' = [pc EXCEPT ![t] = "panic_to_str"]
            /\ UNCHANGED cxxflags
       ELSE /\ cppcode' = [cppcode EXCEPT ![t] = Some(Document(o))]
            /\ cxxflags' = cxxflags + 1
            /\ pc' = [pc EXCEPT ![t] = "written"]
  /\ UNCHANGED <<headers, decls, types, flags, has_errors, lockOwner, poisoned, call,
                 finalizeCalls, compiles, env_args>>

\* let flags = CPP_FLAGS.lock().unwrap();
LockFlags(t) == LockUnwrap(t, "flags", "written", "has_flags")

\* What the writes of println! to stdout do: both succeed, the one of line 245
\* fails, or the one of line 249 fails.
StdoutOutcomes == {"ok", "failed_245", "failed_249"}

\* Lines 239-249: announce and run the compiler with the flags, announce its
\* end, then return from finalize and from record_type_data, which drops the
\* four guards. println! panics if stdout cannot be written: at line 245 before
\* the compiler has run, at line 249 after it.
Compile(t, out) ==
  /\ pc[t] = "has_flags"
  /\ out \in StdoutOutcomes
  /\ IF out = "failed_245"
       THEN /\ pc' = [pc EXCEPT ![t] = "panic_println_245"]
            /\ UNCHANGED <<compiles, cppcode, lockOwner>>
       ELSE IF out = "failed_249"
       THEN /\ compiles' = compiles + 1
            /\ pc' = [pc EXCEPT ![t] = "panic_println_249"]
            /\ UNCHANGED <<cppcode, lockOwner>>
       ELSE /\ compiles' = compiles + 1
            /\ pc' = [pc EXCEPT ![t] = "idle"]
            /\ cppcode' = [cppcode EXCEPT ![t] = None]
            /\ lockOwner' = ReleaseAll(t)
  /\ UNCHANGED <<headers, decls, types, flags, has_errors, poisoned, call, finalizeCalls,
                 cxxflags, env_args, cwd, out_dir>>

\* ------------------------------------------------------------ specifications
Next ==
  \/ \E n \in BlockNames, k \in 0 .. MaxArgs : RegisterBlock(n, k)
  \/ \E t \in Threads : LockHeaders(t)
  \/ \E t \in Threads : LockDecls(t)
  \/ \E t \in Threads : LockTypes(t)
  \/ \E t \in Threads, c \in Calls : Record(t, c)
  \/ \E t \in Threads : ReturnNotFound(t)
  \/ \E t \in Threads : Unwind(t)
  \/ \E t \in Threads : Check(t)
  \/ \E t \in Threads, o \in IterOrders(Registered), io \in FileOutcomes, d \in WorkingDirs :
       FinalizeWrite(t, o, io, d)
  \/ \E t \in Threads : LockFlags(t)
  \/ \E t \in Threads, out \in StdoutOutcomes : Compile(t, out)

Spec == Init /\ [][Next]_vars

\* The unit test harness of the completeness gate: N blocks are registered,
\* then the call site of each is visited once, in any order, by any callback.
\* Calls of other functions may be visited at any time.
Unvisited(n) == n \in Registered /\ decls[n].ret_ty = None
HarnessCalls == {c \in Calls : c.name \in Registered => Unvisited(c.name)}

NextHarness ==
  \/ \E n \in BlockNames, k \in 0 .. MaxArgs :
       (\A m \in Registered : Unvisited(m)) /\ RegisterBlock(n, k)
  \/ \E t \in Threads : LockHeaders(t)
  \/ \E t \in Threads : LockDecls(t)
  \/ \E t \in Threads : LockTypes(t)
  \/ \E t \in Threads, c \in HarnessCalls : Record(t, c)
  \/ \E t \in Threads : ReturnNotFound(t)
  \/ \E t \in Threads : Unwind(t)
  \/ \E t \in Threads : Check(t)
  \/ \E t \in Threads, o \in IterOrders(Registered), io \in FileOutcomes, d \in WorkingDirs :
       FinalizeWrite(t, o, io, d)
  \/ \E t \in Threads : LockFlags(t)
  \/ \E t \in Threads, out \in StdoutOutcomes : Compile(t, out)

SpecHarness == Init /\ [][NextHarness]_vars

\* The lint pass behind a front end that keeps its contract: the call of a
\* registered block has one argument per argument descriptor.
NextContract ==
  \/ \E n \in BlockNames, k \in 0 .. MaxArgs : RegisterBlock(n, k)
  \/ \E t \in Threads : LockHeaders(t)
  \/ \E t \in Threads : LockDecls(t)
  \/ \E t \in Threads : LockTypes(t)
  \/ \E t \in Threads, c \in ContractCalls : Record(t, c)
  \/ \E t \in Threads : ReturnNotFound(t)
  \/ \E t \in Threads : Unwind(t)
  \/ \E t \in Threads : Check(t)
  \/ \E t \in Threads, o \in IterOrders(Registered), io \in FileOutcomes, d \in WorkingDirs :
       FinalizeWrite(t, o, io, d)
  \/ \E t \in Threads : LockFlags(t)
  \/ \E t \in Threads, out \in StdoutOutcomes : Compile(t, out)

SpecContract == Init /\ [][NextContract]_vars

\* super_hack_get_out_dir on its own: the process is started with any command
\* line of up to MaxArgv arguments, in a working directory that can or cannot
\* be obtained, and the function is called once.
InitOutDir ==
  /\ InitTables
  /\ env_args \in ArgVectors
  /\ cwd \in WorkingDirs

GetOutDir ==
  /\ out_dir = NotCalled
  /\ out_dir' = super_hack_get_out_dir(env_args, cwd)
  /\ UNCHANGED <<headers, decls, types, flags, has_errors, lockOwner, poisoned, pc, call,
                 finalizeCalls, cppcode, cxxflags, compiles, env_args, cwd>>

NextOutDir == GetOutDir

SpecOutDir == InitOutDir /\ [][NextOutDir]_vars

\* ------------------------------------------------------------------ claims
\* A thread is inside finalize: GlueEmitter has been invoked and has not returned.
InFinalize(t) == pc[t] \in {"finalize", "written", "has_flags"}

\* C1: whenever finalize has been invoked and is running, every block of the
\* registry has its return type set (and the registry is not empty).
C1_FinalizeOnlyWhenAllReturnTypesSet ==
  \A t \in Threads :
    InFinalize(t) => Registered # {} /\ \A n \in Registered : decls[n].ret_ty # None

\* C1 witness: finalize has just been invoked with two registered blocks.
C1_Witness ==
  \E t \in Threads :
    pc[t] = "finalize" /\ Cardinality(Registered) = 2 /\ finalizeCalls = 1

\* C2: in the harness (N >= 1 blocks, every call site visited once, in any
\* order) finalize is invoked at most once and not before every return type is
\* set; and unless the run has failed (an error in the session, a panic) it
\* has been invoked as soon as the visit that set the last missing return type
\* has made its completeness check.
C2_ExactlyOnceOnLastVisit ==
  /\ finalizeCalls <= 1
  /\ finalizeCalls = 1 => \A n \in Registered : decls[n].ret_ty # None
  /\ (/\ Registered # {}
      /\ \A n \in Registered : decls[n].ret_ty # None
      /\ ~has_errors
      /\ poisoned = {}
      /\ \A t \in Threads : pc[t] \notin {"recorded", "panic_shape", "panic_index"})
       => finalizeCalls = 1

\* C2 witness: two blocks, both visited, finalize invoked once and completed.
C2_Witness ==
  /\ Cardinality(Registered) = 2
  /\ \A n \in Registered : decls[n].ret_ty # None
  /\ finalizeCalls = 1 /\ compiles = 1
  /\ \A t \in Threads : pc[t] = "idle"

\* C3 (the claim as stated): finalize is single-shot, it is never invoked a
\* second time.
C3_FinalizeSingleShot == finalizeCalls <= 1

\* C4: whenever finalize has been invoked and is running, every registered
\* block has a fully resolved signature: its return type and the type of every
\* argument descriptor are set. (Under SpecContract: every call of a block has
\* one argument per descriptor, the front-end contract of the claim.)
C4_FullSignaturesAtFinalize ==
  \A t \in Threads :
    InFinalize(t) =>
      \A n \in Registered :
        /\ decls[n].ret_ty # None
        /\ \A i \in DOMAIN decls[n].arg_idents : decls[n].arg_idents[i].ty # None

\* C4 witness: finalize has just been invoked with two blocks, one of them with
\* two arguments.
C4_Witness ==
  \E t \in Threads :
    /\ pc[t] = "finalize"
    /\ Cardinality(Registered) = 2
    /\ \E n \in Registered : Len(decls[n].arg_idents) = 2

\* C5: once the session has an error, finalize is not running and no step
\* invokes it, writes the document, touches the environment or compiles.
C5_NoFinalizeAfterFatal ==
  /\ [](has_errors => \A t \in Threads : ~InFinalize(t))
  /\ [][has_errors' =>
          /\ finalizeCalls' = finalizeCalls
          /\ cppcode' = cppcode
          /\ cxxflags' = cxxflags
          /\ compiles' = compiles]_vars

\* C5 witness: two blocks, both visited, one of them with an unmappable return
\* type; the completeness check has aborted and finalize was never invoked.
C5_Witness ==
  \E t \in Threads :
    /\ pc[t] = "abort_if_errors"
    /\ has_errors
    /\ finalizeCalls = 0
    /\ Cardinality(Registered) = 2
    /\ \E n \in Registered : decls[n].ret_ty = Some("rs::__Dummy")

\* The placeholder stored for an argument of an unmappable type.
ArgPlaceholder == Some("const rs::__Dummy*")

HasClosureArg(c) == \E i \in DOMAIN c.args : c.args[i].ty = "Closure"

\* C6: a visit with an unmappable argument type (and a mappable return type)
\* that ends without panic has emitted no error, has stored the placeholder on
\* that descriptor and a type on every other one; and when such a visit has set
\* the last return type of an error-free session, its next step invokes finalize.
C6_ArgumentPlaceholderRecoverable ==
  [][\A t \in Threads :
       /\ (/\ pc[t] = "has_types" /\ pc'[t] = "recorded"
           /\ Get(call'[t]).ty # "Closure" /\ HasClosureArg(Get(call'[t])))
            => /\ has_errors' = has_errors
               /\ \A i \in DOMAIN Get(call'[t]).args :
                    LET ty == decls'[Get(call'[t]).name].arg_idents[i].ty
                    IN  IF Get(call'[t]).args[i].ty = "Closure"
                          THEN ty = ArgPlaceholder
                          ELSE ty # None /\ ty # ArgPlaceholder
       /\ (/\ pc[t] = "recorded" /\ pc'[t] # pc[t]
           /\ HasClosureArg(Get(call[t]))
           /\ ~has_errors
           /\ \A n \in Registered : decls[n].ret_ty # None)
            => pc'[t] = "finalize" /\ finalizeCalls' = finalizeCalls + 1]_vars

\* C6 witness: finalize has been invoked and has written the document while a
\* block carries the placeholder on an argument descriptor.
C6_Witness ==
  \E t \in Threads :
    /\ pc[t] = "written"
    /\ \E n \in Registered :
         \E i \in DOMAIN decls[n].arg_idents : decls[n].arg_idents[i].ty = ArgPlaceholder

\* C7 (the claim as stated): while finalize runs (the write of the document,
\* the changes of the environment, the compiler run) its thread holds no lock.
C7_NoIOUnderLock == \A t \in Threads : InFinalize(t) => Held(t) = {}

\* The first argument of the call c that is no double-cast reference (0: none).
FirstMalformed(c) ==
  IF \A i \in DOMAIN c.args : c.args[i].shape = DoubleCastRef THEN 0
  ELSE CHOOSE j \in DOMAIN c.args :
         /\ c.args[j].shape # DoubleCastRef
         /\ \A i \in 1 .. j - 1 : c.args[i].shape = DoubleCastRef

\* A step of thread t that panics on a malformed argument stops at the first
\* one: the descriptors before it have got the types of their arguments, the
\* descriptors from it on are left as they were.
StopsAtFirstMalformed(t) ==
  (pc[t] = "has_types" /\ pc'[t] = "panic_shape") =>
    LET c == Get(call'[t])
        j == FirstMalformed(c)
    IN  /\ j > 0
        /\ j <= Len(decls[c.name].arg_idents) + 1
        /\ \A i \in DOMAIN decls[c.name].arg_idents :
             decls'[c.name].arg_idents[i].ty =
               IF i < j THEN Some(CppName(c.args[i].ty, TRUE))
               ELSE decls[c.name].arg_idents[i].ty

\* A step of thread t that ends the recording of a call with a malformed
\* argument is a panic at the first such argument (line 98), whatever the
\* arguments before it are.
FailsAtFirstMalformed(t) ==
  (pc[t] = "has_types" /\ pc'[t] \notin {"has_types", "not_found"}) =>
    (FirstMalformed(Get(call'[t])) > 0 => pc'[t] = "panic_shape")

\* C8 (the claim as stated): a visit with a malformed argument panics at the
\* first such argument, having processed the arguments before it, without
\* invoking finalize; and once it has panicked no visit invokes finalize.
C8_MalformedFailsAtFirst ==
  [][/\ \A t \in Threads : FailsAtFirstMalformed(t) /\ StopsAtFirstMalformed(t)
     /\ ((\E t \in Threads : pc[t] = "panic_shape" \/ pc'[t] = "panic_shape")
          \/ poisoned # {})
          => finalizeCalls' = finalizeCalls /\ \A t \in Threads : ~InFinalize(t)']_vars

\* A step of thread t that ends the recording of a call with a malformed
\* argument is a panic: at the first such argument (line 98) if the block has
\* a descriptor for every argument before it, and else at the first argument
\* without a descriptor (the index of line 88), which comes before it.
FailsOnMalformed(t) ==
  (pc[t] = "has_types" /\ pc'[t] \notin {"has_types", "not_found"}) =>
    LET c == Get(call'[t])
        j == FirstMalformed(c)
        n == Len(decls[c.name].arg_idents)
    IN  j > 0 => pc'[t] = (IF j <= n + 1 THEN "panic_shape" ELSE "panic_index")

\* C8 (amended): a visit with a malformed argument does not end normally: it
\* panics at the first such argument, having processed the arguments before
\* it, or, if an argument before that one has no descriptor, already at that
\* argument; it does not invoke finalize; and once a panic is raised or has
\* unwound (the mutexes are poisoned) no step invokes finalize.
C8_MalformedArgumentFatal ==
  [][/\ \A t \in Threads : FailsOnMalformed(t) /\ StopsAtFirstMalformed(t)
     /\ ((\E t \in Threads : pc[t] = "panic_shape" \/ pc'[t] = "panic_shape")
          \/ poisoned # {})
          => finalizeCalls' = finalizeCalls /\ \A t \in Threads : ~InFinalize(t)']_vars

\* C8 witness: two blocks, every return type set and no error in the session,
\* so that finalize would be due; the visit has panicked on its second
\* argument, the first malformed one, with the type of the first stored, and
\* finalize has never been invoked.
C8_Witness ==
  \E t \in Threads :
    /\ pc[t] = "panic_shape"
    /\ FirstMalformed(Get(call[t])) = 2
    /\ decls[Get(call[t]).name].arg_idents[1].ty # None
    /\ Cardinality(Registered) = 2
    /\ \A n \in Registered : decls[n].ret_ty # None
    /\ ~has_errors
    /\ finalizeCalls = 0

\* C9 (the claim as stated): the document written by finalize is the same
\* whatever order the run's HashMap iterates in, that is, in every other run
\* over the same blocks, visits, headers and target.
C9_DocumentDeterministic ==
  \A t \in Threads :
    pc[t] = "written" => \A o \in IterOrders(Registered) : cppcode[t] = Some(Document(o))

\* A step of thread t that panics on the index of line 88 has met more
\* arguments than the block has descriptors: every descriptor has got the type
\* of its argument.
StopsAtSurplus(t) ==
  (pc[t] = "has_types" /\ pc'[t] = "panic_index") =>
    LET c == Get(call'[t])
        n == Len(decls[c.name].arg_idents)
    IN  /\ Len(c.args) > n
        /\ \A i \in 1 .. n :
             decls'[c.name].arg_idents[i].ty = Some(CppName(c.args[i].ty, TRUE))

\* C10: after the arguments a_1..a_k of a call are recorded, the i-th
\* descriptor of the block holds the translated type of a_i and still has its
\* identifier, for every i in 1..k; a visit that panics (on a malformed
\* argument, or on an argument beyond the last descriptor) has processed
\* exactly the arguments before it, in order; no step changes the number, the
\* order or the identifiers of a block's descriptors.
C10_ArgumentOrderPreserved ==
  /\ [](\A t \in Threads :
          pc[t] = "recorded" =>
            LET c == Get(call[t])
                fn == decls[c.name]
            IN  /\ Len(c.args) <= Len(fn.arg_idents)
                /\ \A i \in DOMAIN fn.arg_idents : fn.arg_idents[i].name = ArgNames[i]
                /\ \A i \in DOMAIN c.args :
                     fn.arg_idents[i].ty = Some(CppName(c.args[i].ty, TRUE)))
  /\ [][/\ \A t \in Threads : StopsAtFirstMalformed(t) /\ StopsAtSurplus(t)
        /\ \A n \in Registered :
             /\ n \in DOMAIN decls'
             /\ Len(decls'[n].arg_idents) = Len(decls[n].arg_idents)
             /\ \A i \in DOMAIN decls[n].arg_idents :
                  decls'[n].arg_idents[i].name = decls[n].arg_idents[i].name]_vars

\* C10 witness: a call with two arguments of different types has been recorded.
C10_Witness ==
  \E t \in Threads :
    /\ pc[t] = "recorded"
    /\ Len(Get(call[t]).args) = 2
    /\ Get(call[t]).args[1].ty # Get(call[t]).args[2].ty

\* A block's signature is complete: its return type and the type of every
\* argument descriptor are set.
Complete(fn) ==
  /\ fn.ret_ty # None
  /\ \A i \in DOMAIN fn.arg_idents : fn.arg_idents[i].ty # None

\* C11 (the claim as stated): once a block's return type and all its argument
\* types are set, no later step writes them again: the block's entry in the
\* registry stays as it is.
C11_TypeFieldsFilledOnce ==
  [][\A n \in Registered :
       Complete(decls[n]) => n \in DOMAIN decls' /\ decls'[n] = decls[n]]_vars

\* C12: no step takes a resolved type away: a block stays registered, a return
\* type that is set stays set and an argument type that is set stays set, over
\* every visit (also one that panics half way) and every run of finalize.
C12_ResolvedTypesMonotonic ==
  [][\A n \in Registered :
       /\ n \in DOMAIN decls'
       /\ decls[n].ret_ty # None => decls'[n].ret_ty # None
       /\ \A i \in DOMAIN decls[n].arg_idents :
            /\ i \in DOMAIN decls'[n].arg_idents
            /\ decls[n].arg_idents[i].ty # None => decls'[n].arg_idents[i].ty # None]_vars

\* C12 witness: finalize has run, and a later visit of a block has panicked on
\* its first argument: the type stored on that descriptor by the earlier visit
\* is still there.
C12_Witness ==
  \E t \in Threads :
    /\ pc[t] = "panic_shape"
    /\ finalizeCalls >= 1
    /\ FirstMalformed(Get(call[t])) = 1
    /\ Len(decls[Get(call[t]).name].arg_idents) >= 1
    /\ decls[Get(call[t]).name].arg_idents[1].ty # None

\* C13 (the claim as stated): a lookup of a callee name that is not in the
\* registry fails with a hard error: the callback that missed does not return,
\* it panics or leaves an error in the session.
C13_UnregisteredLookupHardError ==
  [][\A t \in Threads :
       (pc[t] = "not_found" /\ pc'[t] # pc[t]) =>
         pc'[t] = "dead" \/ (has_errors' /\ ~has_errors)]_vars

\* C13 (amended): a lookup of a callee name that is not in the registry is no
\* error: the lookup of line 74 raises no panic and no error in the session,
\* and the callback returns, dropping its three guards without poisoning a
\* mutex; a lookup that goes on to lines 75-99 instead of returning is the
\* lookup of a registered name.
C13_UnregisteredLookupReturns ==
  [][\A t \in Threads :
       /\ (pc[t] = "has_types" /\ pc'[t] = "not_found") =>
            /\ poisoned' = poisoned
            /\ has_errors' = has_errors
       /\ (pc[t] = "not_found" /\ pc'[t] # pc[t]) =>
            /\ pc'[t] = "idle"
            /\ \A l \in Locks : lockOwner'[l] # t
            /\ poisoned' = poisoned
            /\ has_errors' = has_errors
       /\ (pc[t] = "has_types" /\ pc'[t] \notin {"has_types", "not_found"}) =>
            Get(call'[t]).name \in Registered]_vars

\* C13 witness: a callback has looked up a name that is not in a registry of
\* one, still unvisited, block.
C13_Witness ==
  \E t \in Threads :
    /\ pc[t] = "not_found"
    /\ Cardinality(Registered) = 1
    /\ \A n \in Registered : decls[n].ret_ty = None

\* C16: a visit of a call whose callee is not a registered block changes
\* neither the block registry, the type registry, the header buffer, the flags
\* nor the session, and does not invoke finalize; finalize is only ever invoked
\* by the visit of a call of a registered block.
C16_UnregisteredVisitNoOp ==
  [][\A t \in Threads :
       /\ ((pc[t] = "has_types" /\ pc'[t] = "not_found")
            \/ (pc[t] = "not_found" /\ pc'[t] # pc[t])) =>
            /\ decls' = decls /\ types' = types /\ headers' = headers /\ flags' = flags
            /\ has_errors' = has_errors
            /\ finalizeCalls' = finalizeCalls
            /\ cppcode' = cppcode /\ cxxflags' = cxxflags /\ compiles' = compiles
            /\ ~InFinalize(t)'
       /\ (pc'[t] = "finalize" /\ pc[t] # "finalize") =>
            pc[t] = "recorded" /\ Get(call[t]).name \in Registered]_vars

\* C16 witness: a callback has looked up a name that is not in the registry
\* while each of the two registered blocks has its return type set and the
\* session is free of errors (finalize has run once, for the visit that set the
\* last return type).
C16_Witness ==
  \E t \in Threads :
    /\ pc[t] = "not_found"
    /\ Cardinality(Registered) = 2
    /\ \A n \in Registered : decls[n].ret_ty # None
    /\ ~has_errors /\ poisoned = {}
    /\ finalizeCalls = 1

\* C14 (the claim as stated): a fatal translation error in return position
\* stops the traversal at that visit: once the session has the error, no step
\* records types on a block any more.
C14_ReturnErrorStopsTraversal ==
  [][has_errors =>
       \A n \in Registered : n \in DOMAIN decls' /\ decls'[n] = decls[n]]_vars

\* The arguments of the command line that come after an occurrence of
\* "--out-dir" and are not "--out-dir" themselves.
AfterOutDirFlag(args) ==
  {j \in DOMAIN args :
     args[j] # "--out-dir" /\ \E i \in 1 .. j - 1 : args[i] = "--out-dir"}

\* C15 (the claim as stated): for every command line and working directory,
\* super_hack_get_out_dir returns the first argument that comes after an occurrence of "--out-dir" and
\* is not "--out-dir" itself; if there is none, it returns the working
\* directory; it panics only if there is none and the working directory cannot
\* be obtained.
C15_OutDirResolution ==
  out_dir # NotCalled =>
    LET S == AfterOutDirFlag(env_args)
    IN  IF S # {}
          THEN out_dir = Returned(env_args[CHOOSE j \in S : \A k \in S : j <= k])
          ELSE IF cwd # None
                 THEN out_dir = Returned(Get(cwd))
                 ELSE out_dir = Panicked

\* A thread is between the third lock of record_type_data (line 72) and its
\* return: it reads or writes the tables.
InVisit(t) ==
  pc[t] \in {"has_types", "not_found", "recorded", "finalize", "written", "has_flags"}
            \cup PanicPcs

\* The threads whose completeness check has found every return type set and
\* that have not run the compiler yet (those that have are counted by compiles).
SawComplete ==
  {t \in Threads : pc[t] \in {"abort_if_errors", "finalize", "panic_out_dir", "panic_create",
                              "panic_write", "panic_to_str", "written", "has_flags",
                              "panic_println_245"}}

\* C17: with the callbacks running concurrently and every registered block
\* visited once, a visit (its writes and its completeness check) excludes every
\* other visit: no two threads are inside a visit, and a thread inside a visit
\* holds the mutexes of the three tables, so that no other thread reads or
\* writes a table between two of its writes; at most one completeness check
\* finds every return type set, and, unless a visit has panicked, exactly one
\* once every block is visited and no visit is unfinished.
C17_VisitsAtomic ==
  /\ \A t, u \in Threads : (t # u /\ InVisit(t)) => ~InVisit(u)
  /\ \A t \in Threads :
       InVisit(t) => \A l \in {"headers", "decls", "types"} : lockOwner[l] = t
  /\ Cardinality(SawComplete) + compiles <= 1
  /\ (/\ Registered # {}
      /\ \A n \in Registered : decls[n].ret_ty # None
      /\ poisoned = {}
      /\ \A t \in Threads : pc[t] \notin {"recorded", "panic_shape", "panic_index"})
       => Cardinality(SawComplete) + compiles = 1

\* C17 witness: two blocks are visited; one callback is in finalize with the
\* four mutexes, its completeness check was the one that found every return
\* type set; the other callback is outside.
C17_Witness ==
  \E t, u \in Threads :
    /\ t # u
    /\ pc[t] = "has_flags" /\ pc[u] = "idle"
    /\ \A l \in Locks : lockOwner[l] = t
    /\ Cardinality(Registered) = 2
    /\ finalizeCalls = 1 /\ compiles = 0

\* The order of the lock statements: lines 70, 71, 72 and 238.
LockOrder == <<"headers", "decls", "types", "flags">>

\* The mutex a thread is about to lock (it waits if another thread holds it).
Wants(t) ==
  CASE pc[t] = "has_headers" -> "decls"
    [] pc[t] = "has_decls" -> "types"
    [] pc[t] = "written" -> "flags"
    [] OTHER -> "none"

\* C18: the mutexes a thread holds are always the first ones of the order
\* headers, decls, types, flags, and there is no set of threads each of which
\* waits for a mutex held by a thread of the set: the callbacks do not
\* deadlock.
C18_LockOrderNoDeadlock ==
  /\ \A t \in Threads :
       \A i \in 2 .. Len(LockOrder) :
         lockOwner[LockOrder[i]] = t => lockOwner[LockOrder[i - 1]] = t
  /\ \A S \in SUBSET Threads :
       S # {} => \E t \in S : Wants(t) = "none" \/ lockOwner[Wants(t)] \notin S

\* C18 witness: a callback holds the first two mutexes and is about to lock the
\* third, while the other callback is outside; finalize has run once before.
C18_Witness ==
  \E t, u \in Threads :
    /\ pc[t] = "has_decls" /\ Wants(t) = "types"
    /\ lockOwner["headers"] = t /\ lockOwner["decls"] = t
    /\ lockOwner["types"] = Free
    /\ pc[u] = "idle"
    /\ finalizeCalls = 1

====
